---- MODULE Spec2Model ----
(***************************************************************************)
(* The multi-backend PDF/HTML export engine of utils/notebook_rendering.py *)
(* as a state machine: the Strategy bit mask, the module globals           *)
(* _strategy / _logging_enabled, the attempt recorder (session store and   *)
(* process-wide store), the apply_strategy scope, the StrategyInfluenced   *)
(* wrapper of each backend and the two st.cache_data memoized renders.     *)
(***************************************************************************)
EXTENDS Integers, Sequences, FiniteSets, TLC

(***************************************************************************)
(* Bounds of the model.                                                    *)
(***************************************************************************)
\* apply_strategy scopes a thread may have open at once
MaxDepth == 2
\* entries an attempt store may hold before a logged render is no longer started
MaxLog == 6
\* modification times a notebook file goes through
MaxMtime == 2
\* entries a store may hold before _debug_attempt is no longer called directly
MaxRecords == 3

(***************************************************************************)
(* class Strategy(enum.IntFlag)                                            *)
(***************************************************************************)
NONE == 0
TEX == 1
WEBPDF == 2
QTPDF == 4

RECURSIVE BitAnd(_, _)
\* IntFlag.__and__ : bitwise AND of two non-negative integers
BitAnd(a, b) ==
    IF a = 0 \/ b = 0 THEN 0
    ELSE (IF a % 2 = 1 /\ b % 2 = 1 THEN 1 ELSE 0) + 2 * BitAnd(a \div 2, b \div 2)

RECURSIVE BitOr(_, _)
\* IntFlag.__or__ : bitwise OR of two non-negative integers
BitOr(a, b) ==
    IF a = 0 THEN b
    ELSE IF b = 0 THEN a
    ELSE (IF a % 2 = 1 \/ b % 2 = 1 THEN 1 ELSE 0) + 2 * BitOr(a \div 2, b \div 2)

\* every value of the closed enumeration: the subsets of {TEX, WEBPDF, QTPDF}
Masks == NONE .. BitOr(TEX, BitOr(WEBPDF, QTPDF))

\* the order in which render_notebook_to_pdf calls the three wrapped exporters
BackendOrder == <<TEX, WEBPDF, QTPDF>>

\* StrategyInfluenced.name, the second argument of @strategy_influenced
Name(b) == CASE b = TEX -> "TEX" [] b = WEBPDF -> "WEBPDF" [] OTHER -> "QTPDF"

\* Python's None; an Optional[Strategy] holding s is <<s>>
None == <<>>
Some(s) == <<s>>

default_strategy == BitOr(TEX, WEBPDF)

(***************************************************************************)
(* The environment: threads (one per Streamlit session), themes, files.    *)
(***************************************************************************)
Threads == {"A", "B"}
Themes == {"light", "dark"}
\* a notebook of the repository and a path at which there is no file
Paths == {"nb.ipynb", "gone.ipynb"}
Mtimes == 1 .. MaxMtime

VARIABLES
    _strategy,          \* module global: None or Some(mask)
    _logging_enabled,   \* module global: the telemetry flag
    _last_pdf_attempts, \* module global: the process-wide attempt store
    session_state,      \* per session: None (key absent) or Some(list of entries)
    scopes,             \* per thread: the open apply_strategy generator frames
    raising,            \* per thread: an exception is propagating to the caller
    files,              \* per path: whether it exists and its modification time
    pdf_cache,          \* st.cache_data store of render_notebook_to_pdf
    html_cache,         \* st.cache_data store of render_notebook_to_html
    call                \* the last operation: its arguments and what it returned

vars == <<_strategy, _logging_enabled, _last_pdf_attempts, session_state, scopes,
          raising, files, pdf_cache, html_cache, call>>

NoCall == [op |-> "none"]

Init ==
    /\ _strategy = None
    /\ _logging_enabled = FALSE
    /\ _last_pdf_attempts = <<>>
    /\ session_state = [t \in Threads |-> None]
    /\ scopes = [t \in Threads |-> <<>>]
    /\ raising = [t \in Threads |-> FALSE]
    /\ files = [p \in Paths |-> [exists |-> (p = "nb.ipynb"), mtime |-> 1]]
    /\ pdf_cache = {}
    /\ html_cache = {}
    /\ call = NoCall

(***************************************************************************)
(* The attempt recorder.  An operation runs in thread t; avail says        *)
(* whether st.session_state can be reached from it (inside the Streamlit   *)
(* runtime) or raises (outside it).  A recorder operation maps the pair    *)
(* of stores  [glob, sess]  to the pair after it.                          *)
(***************************************************************************)
Stores == [glob |-> _last_pdf_attempts, sess |-> session_state]

\* _session_debug_list: creates the session's list when the key is absent
SessionTouched(st, t, avail) ==
    IF avail /\ st.sess[t] = None
    THEN [st EXCEPT !.sess[t] = Some(<<>>)]
    ELSE st

\* _debug_attempt
DebugAttempt(st, t, avail, strategy, status, note) ==
    LET entry == [strategy |-> strategy, status |-> status, note |-> note]
        s1 == SessionTouched(st, t, avail)
    IN  IF avail
        THEN [s1 EXCEPT !.sess[t] = Some(Append(s1.sess[t][1], entry))]
        ELSE [s1 EXCEPT !.glob = Append(s1.glob, entry)]

\* get_pdf_debug: the value returned (a deep copy of the list)
GetPdfDebug(st, t, avail) ==
    LET s1 == SessionTouched(st, t, avail)
    IN  IF avail THEN s1.sess[t][1] ELSE s1.glob

\* mutant of GetPdfDebugObject: list(store) instead of deepcopy(store), a new
\* list of the same entry objects
GetPdfDebugObject_Shallow(st, t, avail) ==
    [val |-> GetPdfDebug(st, t, avail), shares |-> "entries"]

\* get_pdf_debug: the object returned.  deepcopy gives a new list of new
\* entries, which shares nothing with the store ("list": it is the stored
\* list itself; "entries": a new list of the stored entry objects)
GetPdfDebugObject(st, t, avail) ==
    [val |-> GetPdfDebug(st, t, avail), shares |-> "nothing"]

\* mutant of ClearPdfDebug: the process-wide list is cleared only when there
\* is no session list
ClearPdfDebug_Either(st, t, avail) ==
    LET s1 == SessionTouched(st, t, avail)
    IN  IF avail THEN [s1 EXCEPT !.sess[t] = Some(<<>>)] ELSE [s1 EXCEPT !.glob = <<>>]

\* clear_pdf_debug
ClearPdfDebug(st, t, avail) ==
    LET s1 == SessionTouched(st, t, avail)
        s2 == IF avail THEN [s1 EXCEPT !.sess[t] = Some(<<>>)] ELSE s1
    IN  [s2 EXCEPT !.glob = <<>>]

(***************************************************************************)
(* _forced and _effective_strategy                                         *)
(***************************************************************************)
Forced == _logging_enabled

\* mutant of EffectiveStrategy: with no override every exporter is enabled
EffectiveStrategy_All ==
    IF _strategy # None THEN _strategy[1] ELSE BitOr(default_strategy, QTPDF)

EffectiveStrategy ==
    IF _strategy # None THEN _strategy[1] ELSE default_strategy

(***************************************************************************)
(* apply_strategy: the context manager.  Entering runs the generator up to *)
(* its yield, leaving runs its finally block; the frame keeps the locals.  *)
(* A thread's scopes are properly nested: the innermost is left first.     *)
(***************************************************************************)
\* mutant of ApplyStrategyEnter: clear_pdf_debug() is not called
ApplyStrategyEnter_NoClear(t, avail, strat, logging) ==
    /\ ~raising[t]
    /\ scopes' = [scopes EXCEPT ![t] = Append(@,
            [strat |-> strat, logging |-> logging,
             prev_strat |-> _strategy, prev_logging |-> _logging_enabled,
             pre |-> [strategy |-> _strategy, logging |-> _logging_enabled]])]
    /\ _strategy' = Some(strat)
    /\ _logging_enabled' = IF logging THEN TRUE ELSE _logging_enabled
    /\ call' = [op |-> "enter", t |-> t, avail |-> avail, strat |-> strat,
                logging |-> logging]
    /\ UNCHANGED <<_last_pdf_attempts, session_state, raising, files, pdf_cache,
                   html_cache>>

ApplyStrategyEnter(t, avail, strat, logging) ==
    /\ ~raising[t]
    /\ scopes' = [scopes EXCEPT ![t] = Append(@,
            [strat |-> strat, logging |-> logging,
             prev_strat |-> _strategy, prev_logging |-> _logging_enabled,
             \* for the properties: the globals as they were before the scope
             pre |-> [strategy |-> _strategy, logging |-> _logging_enabled]])]
    /\ _strategy' = Some(strat)
    /\ _logging_enabled' = IF logging THEN TRUE ELSE _logging_enabled
    /\ LET st == IF logging THEN ClearPdfDebug(Stores, t, avail) ELSE Stores
       IN  /\ _last_pdf_attempts' = st.glob
           /\ session_state' = st.sess
    /\ call' = [op |-> "enter", t |-> t, avail |-> avail, strat |-> strat,
                logging |-> logging]
    /\ UNCHANGED <<raising, files, pdf_cache, html_cache>>

\* mutant of ApplyStrategyExit: no try/finally, so nothing is restored when
\* the body raised
ApplyStrategyExit_NoFinally(t) ==
    /\ Len(scopes[t]) > 0
    /\ LET f == scopes[t][Len(scopes[t])]
       IN  /\ _strategy' = IF raising[t] THEN _strategy ELSE f.prev_strat
           /\ _logging_enabled' = IF f.logging /\ ~raising[t] THEN f.prev_logging
                                  ELSE _logging_enabled
           /\ call' = [op |-> "exit", t |-> t, frame |-> f, raised |-> raising[t]]
    /\ scopes' = [scopes EXCEPT ![t] = SubSeq(@, 1, Len(@) - 1)]
    /\ UNCHANGED <<_last_pdf_attempts, session_state, raising, files, pdf_cache,
                   html_cache>>

\* mutant of ApplyStrategyExit: a single global flag, reset to "no override"
ApplyStrategyExit_ToDefault(t) ==
    /\ Len(scopes[t]) > 0
    /\ _strategy' = None
    /\ _logging_enabled' = FALSE
    /\ call' = [op |-> "exit", t |-> t, frame |-> scopes[t][Len(scopes[t])],
                raised |-> raising[t]]
    /\ scopes' = [scopes EXCEPT ![t] = SubSeq(@, 1, Len(@) - 1)]
    /\ UNCHANGED <<_last_pdf_attempts, session_state, raising, files, pdf_cache,
                   html_cache>>

\* the finally block, reached on a normal exit and when the body raised
ApplyStrategyExit(t) ==
    /\ Len(scopes[t]) > 0
    /\ LET f == scopes[t][Len(scopes[t])]
       IN  /\ _strategy' = f.prev_strat
           /\ _logging_enabled' = IF f.logging THEN f.prev_logging ELSE _logging_enabled
           /\ call' = [op |-> "exit", t |-> t, frame |-> f, raised |-> raising[t]]
    /\ scopes' = [scopes EXCEPT ![t] = SubSeq(@, 1, Len(@) - 1)]
    /\ UNCHANGED <<_last_pdf_attempts, session_state, raising, files, pdf_cache,
                   html_cache>>

(***************************************************************************)
(* What a wrapped exporter does when it is run: it returns bytes ("pdf"),  *)
(* returns zero-length bytes ("empty"), returns None ("none") or raises.   *)
(* An exception carries what the failure handlers read: LatexFailed its    *)
(* captured output (lines), any other exception the phrases of its text.   *)
(***************************************************************************)
\* an exporter that returns: "pdf", "empty" or "none"
Returns(k) == [kind |-> k, type |-> "", output |-> <<>>, text |-> {}]
Returned == {Returns(k) : k \in {"pdf", "empty", "none"}}

\* a line of LaTeX output: noise, or "! LaTeX Error: File `f' not found."
Noise == [missing |-> None]
Missing(f) == [missing |-> Some(f)]

LatexOutputs == {<<Noise>>, <<Noise, Missing("a.sty"), Noise>>,
                 <<Missing("b.sty"), Missing("a.sty")>>}
ChromiumPhrase == "No suitable chromium executable"
PlaywrightPhrase == "Playwright is not installed"

LatexFailed(output) ==
    [kind |-> "raise", type |-> "LatexFailed", output |-> output, text |-> {}]
OtherError(phrases) ==
    [kind |-> "raise", type |-> "Exception", output |-> <<>>, text |-> phrases]

Raised(out) == out.kind = "raise"

\* what each exporter may do
Outcomes(b) ==
    CASE b = TEX -> Returned \cup {LatexFailed(o) : o \in LatexOutputs}
                             \cup {OtherError({})}
      [] b = WEBPDF -> Returned \cup {OtherError(ph) :
                             ph \in SUBSET {ChromiumPhrase, PlaywrightPhrase}}
      [] OTHER -> Returned \cup {OtherError({})}

\* the value `body` a wrapped exporter returns
Body(b, out) == IF out.kind = "none" THEN None ELSE <<Name(b), out.kind>>

(***************************************************************************)
(* The handlers of StrategyInfluenced.  st is the pair of stores.          *)
(***************************************************************************)
\* trying
DebugStart(st, t, avail, b) == DebugAttempt(st, t, avail, Name(b), "try", None)

\* log_result
LogResult(st, t, avail, b, r) ==
    DebugAttempt(st, t, avail, Name(b), IF r # None THEN "ok" ELSE "fail", None)

\* log_fail, the default failure handler
LogFail(st, t, avail, b, e) == DebugAttempt(st, t, avail, Name(b), "fail", None)

RECURSIVE FirstMissing(_)
\* the loop of _tex_fail over the output's lines: the first match wins
FirstMissing(lines) ==
    IF lines = <<>> THEN None
    ELSE IF Head(lines).missing # None
         THEN Some("install " \o Head(lines).missing[1])
         ELSE FirstMissing(Tail(lines))

\* mutant of TexFail: the bound handler records nothing
TexFail_Silent(st, t, avail, e) == st

\* mutant of TexFail: the captured output is not searched, the note is None
TexFail_NoNote(st, t, avail, e) ==
    DebugAttempt(st, t, avail, Name(TEX), "fail", None)

\* _tex_fail, bound with _export_pdf_via_tex.bind_fail
TexFail(st, t, avail, e) ==
    LET note == IF e.type = "LatexFailed" THEN FirstMissing(e.output) ELSE None
    IN  DebugAttempt(st, t, avail, Name(TEX), "fail", note)

\* _webpdf_fail, bound with _export_pdf_via_webpdf.bind_fail
WebpdfFail(st, t, avail, e) ==
    LET note == IF ChromiumPhrase \in e.text THEN Some("playwright install chromium")
                ELSE IF PlaywrightPhrase \in e.text
                     THEN Some("pip install nbconvert[webpdf]")
                     ELSE None
    IN  DebugAttempt(st, t, avail, Name(WEBPDF), "fail", note)

\* self.debug_fail of each wrapped exporter after the module is imported
DebugFail(st, t, avail, b, e) ==
    CASE b = TEX -> TexFail(st, t, avail, e)
      [] b = WEBPDF -> WebpdfFail(st, t, avail, e)
      [] OTHER -> LogFail(st, t, avail, b, e)

\* self.debug_end of each wrapped exporter: nothing rebinds it
DebugEnd(st, t, avail, b, r) == LogResult(st, t, avail, b, r)

\* mutant of StrategyInfluencedCall: the exporter is run whatever the mask
StrategyInfluencedCall_NoGate(st, t, avail, b, out) ==
    LET logging == Forced
        s1 == IF logging THEN DebugStart(st, t, avail, b) ELSE st
    IN  IF Raised(out)
        THEN [r |-> None,
              st |-> IF logging THEN DebugFail(s1, t, avail, b, out) ELSE s1,
              ran |-> TRUE, raised |-> FALSE]
        ELSE [r |-> Body(b, out),
              st |-> IF logging THEN DebugEnd(s1, t, avail, b, Body(b, out)) ELSE s1,
              ran |-> TRUE, raised |-> FALSE]

\* mutant of StrategyInfluencedCall: no except clause, the exporter's
\* exception leaves the wrapper
StrategyInfluencedCall_Propagates(st, t, avail, b, out) ==
    IF BitAnd(EffectiveStrategy, b) = 0
    THEN [r |-> None, st |-> st, ran |-> FALSE, raised |-> FALSE]
    ELSE LET logging == Forced
             s1 == IF logging THEN DebugStart(st, t, avail, b) ELSE st
         IN  IF Raised(out)
             THEN [r |-> None, st |-> s1, ran |-> TRUE, raised |-> TRUE]
             ELSE [r |-> Body(b, out),
                   st |-> IF logging THEN DebugEnd(s1, t, avail, b, Body(b, out))
                          ELSE s1,
                   ran |-> TRUE, raised |-> FALSE]

\* mutant of StrategyInfluencedCall: debug_start is called after the exporter
\* has returned, not before it is run
StrategyInfluencedCall_LateStart(st, t, avail, b, out) ==
    IF BitAnd(EffectiveStrategy, b) = 0
    THEN [r |-> None, st |-> st, ran |-> FALSE, raised |-> FALSE]
    ELSE LET logging == Forced
         IN  IF Raised(out)
             THEN [r |-> None,
                   st |-> IF logging THEN DebugFail(st, t, avail, b, out) ELSE st,
                   ran |-> TRUE, raised |-> FALSE]
             ELSE [r |-> Body(b, out),
                   st |-> IF logging
                          THEN DebugStart(DebugEnd(st, t, avail, b, Body(b, out)),
                                          t, avail, b)
                          ELSE st,
                   ran |-> TRUE, raised |-> FALSE]

\* mutant of StrategyInfluencedCall: the failure handler is called whether
\* or not telemetry is on
StrategyInfluencedCall_UngatedFail(st, t, avail, b, out) ==
    IF BitAnd(EffectiveStrategy, b) = 0
    THEN [r |-> None, st |-> st, ran |-> FALSE, raised |-> FALSE]
    ELSE LET logging == Forced
             s1 == IF logging THEN DebugStart(st, t, avail, b) ELSE st
         IN  IF Raised(out)
             THEN [r |-> None, st |-> DebugFail(s1, t, avail, b, out),
                   ran |-> TRUE, raised |-> FALSE]
             ELSE [r |-> Body(b, out),
                   st |-> IF logging THEN DebugEnd(s1, t, avail, b, Body(b, out))
                          ELSE s1,
                   ran |-> TRUE, raised |-> FALSE]

(***************************************************************************)
(* StrategyInfluenced.__call__ of exporter b, which does `out` when run.   *)
(* Returns the value, the stores after it, whether the exporter was run    *)
(* and whether an exception left the wrapper.                              *)
(***************************************************************************)
StrategyInfluencedCall(st, t, avail, b, out) ==
    IF BitAnd(EffectiveStrategy, b) = 0
    THEN [r |-> None, st |-> st, ran |-> FALSE, raised |-> FALSE]
    ELSE LET logging == Forced
             s1 == IF logging THEN DebugStart(st, t, avail, b) ELSE st
         IN  IF Raised(out)
             THEN [r |-> None,
                   st |-> IF logging THEN DebugFail(s1, t, avail, b, out) ELSE s1,
                   ran |-> TRUE, raised |-> FALSE]
             ELSE [r |-> Body(b, out),
                   st |-> IF logging THEN DebugEnd(s1, t, avail, b, Body(b, out))
                          ELSE s1,
                   ran |-> TRUE, raised |-> FALSE]

(***************************************************************************)
(* The body of render_notebook_to_pdf after the file is read: the three    *)
(* wrapped exporters in turn, returning the first value that is not None.  *)
(* env gives what each exporter does if it is run.  attempts lists the     *)
(* exporters that were run, with what they did (out: the kind of it).      *)
(***************************************************************************)
RECURSIVE TryFrom(_, _, _, _, _, _)
TryFrom(i, st, attempts, t, avail, env) ==
    IF i > Len(BackendOrder)
    THEN [r |-> None, st |-> st, attempts |-> attempts, raised |-> FALSE]
    ELSE LET b == BackendOrder[i]
             c == StrategyInfluencedCall(st, t, avail, b, env[b])
             att == IF c.ran THEN Append(attempts, [b |-> b, out |-> env[b].kind, did |-> env[b]])
                    ELSE attempts
         IN  IF c.raised \/ c.r # None
             THEN [r |-> c.r, st |-> c.st, attempts |-> att, raised |-> c.raised]
             ELSE TryFrom(i + 1, c.st, att, t, avail, env)

RECURSIVE TryAllFrom(_, _, _, _, _, _, _)
TryAllFrom(i, r, st, attempts, t, avail, env) ==
    IF i > Len(BackendOrder)
    THEN [r |-> r, st |-> st, attempts |-> attempts, raised |-> FALSE]
    ELSE LET b == BackendOrder[i]
             c == StrategyInfluencedCall(st, t, avail, b, env[b])
             att == IF c.ran THEN Append(attempts, [b |-> b, out |-> env[b].kind, did |-> env[b]])
                    ELSE attempts
         IN  TryAllFrom(i + 1, IF r # None THEN r ELSE c.r, c.st, att, t, avail, env)

\* mutant of RenderPdfBody: every exporter is called and the first value kept
RenderPdfBody_NoShortCircuit(st, t, avail, env) ==
    TryAllFrom(1, None, st, <<>>, t, avail, env)

RenderPdfBody(st, t, avail, env) == TryFrom(1, st, <<>>, t, avail, env)

\* What an exporter that is not run would have done cannot be observed: only
\* one such choice is enumerated (it returns None).  An exporter is not run
\* under mask when its bit is not set, or when an exporter before it has
\* returned a value (done).
Choices(b, mask, done) ==
    IF done \/ BitAnd(mask, b) = 0 THEN {Returns("none")} ELSE Outcomes(b)

Gives(out) == out.kind \in {"pdf", "empty"}

\* env[b]: what exporter b does if it is run
Envs(mask) ==
    UNION {UNION {{(TEX :> o1 @@ WEBPDF :> o2 @@ QTPDF :> o3) :
                      o3 \in Choices(QTPDF, mask, Gives(o1) \/ Gives(o2))} :
                  o2 \in Choices(WEBPDF, mask, Gives(o1))} :
           o1 \in Choices(TEX, mask, FALSE)}

(***************************************************************************)
(* st.cache_data: the key of a call is made of the arguments whose         *)
(* parameter name does not begin with an underscore; a hit returns the     *)
(* stored value without running the function, a raise stores nothing.      *)
(***************************************************************************)
\* render_notebook_to_pdf(path, mtime, strategy_cache_key)
PdfParams == <<[name |-> "path", underscore |-> FALSE],
               [name |-> "mtime", underscore |-> FALSE],
               [name |-> "strategy_cache_key", underscore |-> FALSE]>>
\* render_notebook_to_html(path, _mtime, theme)
HtmlParams == <<[name |-> "path", underscore |-> FALSE],
                [name |-> "_mtime", underscore |-> TRUE],
                [name |-> "theme", underscore |-> FALSE]>>

RECURSIVE CacheKey(_, _)
CacheKey(params, args) ==
    IF params = <<>> THEN <<>>
    ELSE IF Head(params).underscore
         THEN CacheKey(Tail(params), Tail(args))
         ELSE <<Head(args)>> \o CacheKey(Tail(params), Tail(args))

PdfKey(path, mtime, sck) == CacheKey(PdfParams, <<path, mtime, sck>>)
HtmlKey(path, mtime, theme) == CacheKey(HtmlParams, <<path, mtime, theme>>)

Cached(cache, key) == \E e \in cache : e.key = key
Lookup(cache, key) == CHOOSE e \in cache : e.key = key

\* the exporters' behaviour a call can observe: none when the file is missing
\* or the cache answers
EnvsOf(cache, path, mtime, sck) ==
    IF files[path].exists /\ ~Cached(cache, PdfKey(path, mtime, sck))
    THEN Envs(EffectiveStrategy)
    ELSE Envs(NONE)

\* mutant of PdfCall: a None result is not stored in the cache
PdfCall_SkipNone(cache, st, t, avail, path, mtime, sck, env) ==
    LET key == PdfKey(path, mtime, sck)
    IN  IF Cached(cache, key)
        THEN [cache |-> cache, st |-> st, hit |-> TRUE, raised |-> FALSE,
              result |-> Lookup(cache, key).val, attempts |-> <<>>,
              entry |-> Some(Lookup(cache, key))]
        ELSE IF ~files[path].exists
        THEN [cache |-> cache, st |-> st, hit |-> FALSE, raised |-> TRUE,
              result |-> None, attempts |-> <<>>, entry |-> None]
        ELSE LET c == RenderPdfBody(st, t, avail, env)
                 e == [key |-> key, val |-> c.r, eff |-> EffectiveStrategy,
                       mtime |-> mtime]
             IN  [cache |-> IF c.raised \/ c.r = None THEN cache ELSE cache \cup {e},
                  st |-> c.st, hit |-> FALSE, raised |-> c.raised,
                  result |-> c.r, attempts |-> c.attempts, entry |-> None]

\* mutant of PdfCall: the file is not opened before the exporters are tried
PdfCall_NoOpen(cache, st, t, avail, path, mtime, sck, env) ==
    LET key == PdfKey(path, mtime, sck)
    IN  IF Cached(cache, key)
        THEN [cache |-> cache, st |-> st, hit |-> TRUE, raised |-> FALSE,
              result |-> Lookup(cache, key).val, attempts |-> <<>>,
              entry |-> Some(Lookup(cache, key))]
        ELSE LET c == RenderPdfBody(st, t, avail, env)
                 e == [key |-> key, val |-> c.r, eff |-> EffectiveStrategy,
                       mtime |-> mtime]
             IN  [cache |-> IF c.raised THEN cache ELSE cache \cup {e},
                  st |-> c.st, hit |-> FALSE, raised |-> c.raised,
                  result |-> c.r, attempts |-> c.attempts, entry |-> None]

(***************************************************************************)
(* render_notebook_to_pdf(path, mtime, strategy_cache_key) run by thread t *)
(* on the cache `cache` and the stores `st`: what it returns and what it   *)
(* leaves.  A cache entry also remembers, for the properties, the mask in  *)
(* force and the mtime argument when it was computed.                      *)
(***************************************************************************)
PdfCall(cache, st, t, avail, path, mtime, sck, env) ==
    LET key == PdfKey(path, mtime, sck)
    IN  IF Cached(cache, key)
        THEN [cache |-> cache, st |-> st, hit |-> TRUE, raised |-> FALSE,
              result |-> Lookup(cache, key).val, attempts |-> <<>>,
              entry |-> Some(Lookup(cache, key))]
        ELSE IF ~files[path].exists
        THEN \* open(path) raises FileNotFoundError
             [cache |-> cache, st |-> st, hit |-> FALSE, raised |-> TRUE,
              result |-> None, attempts |-> <<>>, entry |-> None]
        ELSE LET c == RenderPdfBody(st, t, avail, env)
                 e == [key |-> key, val |-> c.r, eff |-> EffectiveStrategy,
                       mtime |-> mtime]
             IN  [cache |-> IF c.raised THEN cache ELSE cache \cup {e},
                  st |-> c.st, hit |-> FALSE, raised |-> c.raised,
                  result |-> c.r, attempts |-> c.attempts, entry |-> None]

\* the record of a PDF render kept in `call`
PdfRecord(cold, t, avail, path, mtime, sck, before, c) ==
    [op |-> "pdf", cold |-> cold, t |-> t, avail |-> avail, path |-> path, mtime |-> mtime,
     sck |-> sck, before |-> before, hit |-> c.hit, raised |-> c.raised,
     result |-> c.result, attempts |-> c.attempts, entry |-> c.entry]

\* mutant of RenderNotebookToPdf: the call puts the configuration back to
\* "no override, telemetry off" when it is done
RenderNotebookToPdf_Resets(t, avail, path, mtime, sck, env) ==
    LET c == PdfCall(pdf_cache, Stores, t, avail, path, mtime, sck, env)
        before == Len(GetPdfDebug(Stores, t, avail))
    IN  /\ ~raising[t]
        /\ files[path].exists => mtime = files[path].mtime
        /\ Forced => before < MaxLog
        /\ pdf_cache' = c.cache
        /\ _last_pdf_attempts' = c.st.glob
        /\ session_state' = c.st.sess
        /\ raising' = [raising EXCEPT ![t] = c.raised]
        /\ call' = PdfRecord(FALSE, t, avail, path, mtime, sck, before, c)
        /\ _strategy' = None
        /\ _logging_enabled' = FALSE
        /\ UNCHANGED <<scopes, files, html_cache>>

\* a call of render_notebook_to_pdf
RenderNotebookToPdf(t, avail, path, mtime, sck, env) ==
    LET c == PdfCall(pdf_cache, Stores, t, avail, path, mtime, sck, env)
        before == Len(GetPdfDebug(Stores, t, avail))
    IN  /\ ~raising[t]
        /\ files[path].exists => mtime = files[path].mtime
        /\ Forced => before < MaxLog
        /\ pdf_cache' = c.cache
        /\ _last_pdf_attempts' = c.st.glob
        /\ session_state' = c.st.sess
        /\ raising' = [raising EXCEPT ![t] = c.raised]
        /\ call' = PdfRecord(FALSE, t, avail, path, mtime, sck, before, c)
        /\ UNCHANGED <<_strategy, _logging_enabled, scopes, files, html_cache>>

\* the cold render of the notebooks page (view_notebooks.py, _render_now):
\*   render_notebook_to_pdf.clear(); clear_pdf_debug();
\*   render_notebook_to_pdf(notebook_path, mtime)
RenderCold(t, avail, path, mtime, env) ==
    LET st0 == ClearPdfDebug(Stores, t, avail)
        c == PdfCall({}, st0, t, avail, path, mtime, default_strategy, env)
    IN  /\ ~raising[t]
        /\ files[path].exists => mtime = files[path].mtime
        /\ pdf_cache' = c.cache
        /\ _last_pdf_attempts' = c.st.glob
        /\ session_state' = c.st.sess
        /\ raising' = [raising EXCEPT ![t] = c.raised]
        /\ call' = PdfRecord(TRUE, t, avail, path, mtime, default_strategy, 0, c)
        /\ UNCHANGED <<_strategy, _logging_enabled, scopes, files, html_cache>>

\* render_notebook_to_pdf.clear()
ClearPdfCache(t) ==
    /\ ~raising[t]
    /\ pdf_cache # {}
    /\ pdf_cache' = {}
    /\ call' = [op |-> "clear_cache", t |-> t]
    /\ UNCHANGED <<_strategy, _logging_enabled, _last_pdf_attempts, session_state,
                   scopes, raising, files, html_cache>>

(***************************************************************************)
(* render_notebook_to_html(path, _mtime, theme): the HTML of the file as   *)
(* it is now (its content is identified by files[path].mtime).             *)
(***************************************************************************)
ExporterTheme(theme) == IF theme = "dark" THEN "dark" ELSE "light"

RenderNotebookToHtml(t, path, mtime, theme) ==
    LET key == HtmlKey(path, mtime, theme)
        base == [op |-> "html", t |-> t, path |-> path, mtime |-> mtime,
                 theme |-> theme]
    IN
    /\ ~raising[t]
    /\ files[path].exists => mtime = files[path].mtime
    /\ IF Cached(html_cache, key)
       THEN /\ call' = base @@ [hit |-> TRUE, raised |-> FALSE,
                                result |-> Lookup(html_cache, key).val,
                                entry |-> Some(Lookup(html_cache, key))]
            /\ UNCHANGED <<raising, html_cache>>
       ELSE IF ~files[path].exists
       THEN /\ call' = base @@ [hit |-> FALSE, raised |-> TRUE, result |-> None,
                                entry |-> None]
            /\ raising' = [raising EXCEPT ![t] = TRUE]
            /\ UNCHANGED html_cache
       ELSE LET val == <<"html", files[path].mtime, ExporterTheme(theme)>>
            IN  /\ html_cache' = html_cache \cup
                        {[key |-> key, val |-> val, mtime |-> mtime]}
                /\ call' = base @@ [hit |-> FALSE, raised |-> FALSE,
                                    result |-> val, entry |-> None]
                /\ UNCHANGED raising
    /\ UNCHANGED <<_strategy, _logging_enabled, _last_pdf_attempts, session_state,
                   scopes, files, pdf_cache>>

(***************************************************************************)
(* The caller and the file system.                                         *)
(***************************************************************************)
\* the exception is caught: by the code around the scopes it has left, or by
\* the Streamlit script runner
Handled(t) ==
    /\ raising[t]
    /\ raising' = [raising EXCEPT ![t] = FALSE]
    /\ call' = [op |-> "handled", t |-> t]
    /\ UNCHANGED <<_strategy, _logging_enabled, _last_pdf_attempts, session_state,
                   scopes, files, pdf_cache, html_cache>>

\* the notebook file is saved again: its modification time changes
Touch(path) ==
    /\ files[path].exists
    /\ files[path].mtime < MaxMtime
    /\ files' = [files EXCEPT ![path].mtime = @ + 1]
    /\ call' = [op |-> "touch", path |-> path]
    /\ UNCHANGED <<_strategy, _logging_enabled, _last_pdf_attempts, session_state,
                   scopes, raising, pdf_cache, html_cache>>

\* the notebook file is removed, or put back
SetExists(path, b) ==
    /\ files[path].exists # b
    /\ files' = [files EXCEPT ![path].exists = b]
    /\ call' = [op |-> "file", path |-> path]
    /\ UNCHANGED <<_strategy, _logging_enabled, _last_pdf_attempts, session_state,
                   scopes, raising, pdf_cache, html_cache>>

(***************************************************************************)
(* The recorder called directly: by the debug UI of a page, or by code     *)
(* that runs outside the Streamlit runtime (avail = FALSE).                *)
(***************************************************************************)
\* the entries _debug_attempt is called with
Entries == {[strategy |-> "TEX", status |-> "try", note |-> None],
            [strategy |-> "TEX", status |-> "fail", note |-> Some("install a.sty")]}

\* _debug_attempt(strategy, status, note)
DebugAttemptCall(t, avail, entry) ==
    LET st == DebugAttempt(Stores, t, avail, entry.strategy, entry.status, entry.note)
    IN  /\ ~raising[t]
        /\ Len(GetPdfDebug(Stores, t, avail)) < MaxRecords
        /\ _last_pdf_attempts' = st.glob
        /\ session_state' = st.sess
        /\ call' = [op |-> "record", t |-> t, avail |-> avail, entry |-> entry]
        /\ UNCHANGED <<_strategy, _logging_enabled, scopes, raising, files, pdf_cache,
                       html_cache>>

\* get_pdf_debug(): the caller holds the list it returned
GetPdfDebugCall(t, avail) ==
    LET st == SessionTouched(Stores, t, avail)
    IN  /\ ~raising[t]
        /\ _last_pdf_attempts' = st.glob
        /\ session_state' = st.sess
        /\ call' = [op |-> "snapshot", t |-> t, avail |-> avail,
                    held |-> GetPdfDebugObject(Stores, t, avail)]
        /\ UNCHANGED <<_strategy, _logging_enabled, scopes, raising, files, pdf_cache,
                       html_cache>>

\* clear_pdf_debug()
ClearPdfDebugCall(t, avail) ==
    LET st == ClearPdfDebug(Stores, t, avail)
    IN  /\ ~raising[t]
        /\ _last_pdf_attempts' = st.glob
        /\ session_state' = st.sess
        /\ call' = [op |-> "clear", t |-> t, avail |-> avail]
        /\ UNCHANGED <<_strategy, _logging_enabled, scopes, raising, files, pdf_cache,
                       html_cache>>

\* what a caller may do to a list: append to it, empty it, change an entry
Mutations == {"append", "clear", "edit"}

Mutated(list, m) ==
    CASE m = "append" ->
            Append(list, [strategy |-> "caller", status |-> "edited", note |-> None])
      [] m = "clear" -> <<>>
      [] OTHER -> IF list = <<>> THEN list ELSE [list EXCEPT ![1].status = "edited"]

\* the caller mutates, in place, the list it got from get_pdf_debug(); the
\* store changes with it as far as the two share objects
MutateHeld(t, m) ==
    /\ call.op = "snapshot"
    /\ call.t = t
    /\ LET h == call.held
           reaches == h.shares = "list" \/ (h.shares = "entries" /\ m = "edit")
       IN  /\ call' = [op |-> "mutate", t |-> t, avail |-> call.avail, m |-> m,
                       held |-> [h EXCEPT !.val = Mutated(h.val, m)]]
           /\ IF reaches /\ call.avail
              THEN session_state' =
                      [session_state EXCEPT ![t] = Some(Mutated(@[1], m))]
              ELSE UNCHANGED session_state
           /\ IF reaches /\ ~call.avail
              THEN _last_pdf_attempts' = Mutated(_last_pdf_attempts, m)
              ELSE UNCHANGED _last_pdf_attempts
    /\ UNCHANGED <<_strategy, _logging_enabled, scopes, raising, files, pdf_cache,
                   html_cache>>

(***************************************************************************)
(* Spec: one session, driven as the notebooks page drives the module: an   *)
(* override scope (not nested), cold renders, plain renders.               *)
(***************************************************************************)
Next ==
    \/ \E strat \in Masks, logging \in BOOLEAN :
          scopes["A"] = <<>> /\ ApplyStrategyEnter("A", TRUE, strat, logging)
    \/ ApplyStrategyExit("A")
    \/ \E path \in Paths, mtime \in Mtimes :
          \E env \in EnvsOf({}, path, mtime, default_strategy) :
             RenderCold("A", TRUE, path, mtime, env)
    \/ \E path \in Paths, mtime \in Mtimes :
          \E env \in EnvsOf(pdf_cache, path, mtime, default_strategy) :
             RenderNotebookToPdf("A", TRUE, path, mtime, default_strategy, env)
    \/ Handled("A")

Spec == Init /\ [][Next]_vars

(***************************************************************************)
(* SpecScopes: one thread nesting override scopes up to MaxDepth, whose    *)
(* body may raise (a render of a path at which there is no file).          *)
(***************************************************************************)
NextScopes ==
    \/ \E strat \in Masks, logging \in BOOLEAN :
          /\ Len(scopes["A"]) < MaxDepth
          /\ ApplyStrategyEnter("A", TRUE, strat, logging)
    \/ ApplyStrategyExit("A")
    \/ \E mtime \in Mtimes :
          \E env \in EnvsOf(pdf_cache, "gone.ipynb", mtime, default_strategy) :
             RenderNotebookToPdf("A", TRUE, "gone.ipynb", mtime, default_strategy, env)
    \/ Handled("A")

SpecScopes == Init /\ [][NextScopes]_vars

(***************************************************************************)
(* SpecFingerprint: one session rendering a notebook that is saved again   *)
(* between renders, with no override.                                      *)
(***************************************************************************)
NextFingerprint ==
    \/ \E path \in Paths, mtime \in Mtimes :
          \E env \in EnvsOf(pdf_cache, path, mtime, default_strategy) :
             RenderNotebookToPdf("A", TRUE, path, mtime, default_strategy, env)
    \/ \E path \in Paths, mtime \in Mtimes, theme \in Themes :
          RenderNotebookToHtml("A", path, mtime, theme)
    \/ ClearPdfCache("A")
    \/ Handled("A")
    \/ \E path \in Paths : Touch(path)

SpecFingerprint == Init /\ [][NextFingerprint]_vars

(***************************************************************************)
(* SpecSessions: two sessions served by threads of one process.  Session A *)
(* opens override scopes and renders as the page's forced path does;       *)
(* session B enters no scope and renders as the page's plain path does.    *)
(* Each has its own st.session_state; the module globals are shared.       *)
(***************************************************************************)
\* the overrides session A asks for: no exporter, the one exporter that is
\* not in the default mask, and it together with one of the default mask
SessionMasks == {NONE, QTPDF, BitOr(WEBPDF, QTPDF)}

NextSessions ==
    \/ \E strat \in SessionMasks, logging \in BOOLEAN :
          scopes["A"] = <<>> /\ ApplyStrategyEnter("A", TRUE, strat, logging)
    \/ ApplyStrategyExit("A")
    \/ \E env \in EnvsOf({}, "nb.ipynb", files["nb.ipynb"].mtime, default_strategy) :
          /\ scopes["A"] # <<>>
          /\ RenderCold("A", TRUE, "nb.ipynb", files["nb.ipynb"].mtime, env)
    \/ \E env \in EnvsOf(pdf_cache, "nb.ipynb", files["nb.ipynb"].mtime,
                          default_strategy) :
          /\ session_state["B"] = None
          /\ RenderNotebookToPdf("B", TRUE, "nb.ipynb", files["nb.ipynb"].mtime,
                                 default_strategy, env)
    \/ ClearPdfCache("B")

SpecSessions == Init /\ [][NextSessions]_vars

(***************************************************************************)
(* SpecMissing: one session rendering a notebook that is removed and put   *)
(* back between renders, inside and outside an override scope.             *)
(***************************************************************************)
NextMissing ==
    \/ \E strat \in SessionMasks, logging \in BOOLEAN :
          scopes["A"] = <<>> /\ ApplyStrategyEnter("A", TRUE, strat, logging)
    \/ ApplyStrategyExit("A")
    \/ \E path \in Paths, mtime \in Mtimes :
          \E env \in EnvsOf(pdf_cache, path, mtime, default_strategy) :
             RenderNotebookToPdf("A", TRUE, path, mtime, default_strategy, env)
    \/ \E path \in Paths, mtime \in Mtimes, theme \in Themes :
          RenderNotebookToHtml("A", path, mtime, theme)
    \/ Handled("A")
    \/ \E b \in BOOLEAN : SetExists("nb.ipynb", b)

SpecMissing == Init /\ [][NextMissing]_vars

(***************************************************************************)
(* SpecRecorder: one thread using the recorder, inside the Streamlit       *)
(* runtime (its session store can be reached) and outside it: records,     *)
(* snapshots that the caller then mutates, clears, and a logged render.    *)
(***************************************************************************)
NextRecorder ==
    \/ \E avail \in BOOLEAN, entry \in Entries : DebugAttemptCall("A", avail, entry)
    \/ \E avail \in BOOLEAN : GetPdfDebugCall("A", avail)
    \/ \E avail \in BOOLEAN : ClearPdfDebugCall("A", avail)
    \/ \E m \in Mutations : MutateHeld("A", m)
    \/ scopes["A"] = <<>> /\ ApplyStrategyEnter("A", TRUE, QTPDF, TRUE)
    \/ ApplyStrategyExit("A")
    \/ \E env \in EnvsOf(pdf_cache, "nb.ipynb", files["nb.ipynb"].mtime,
                          default_strategy) :
          /\ scopes["A"] # <<>>
          /\ RenderNotebookToPdf("A", TRUE, "nb.ipynb", files["nb.ipynb"].mtime,
                                 default_strategy, env)

SpecRecorder == Init /\ [][NextRecorder]_vars

(***************************************************************************)
(* SpecOverlap: two sessions, each opening and leaving one override scope  *)
(* at a time, in any interleaving; the scopes of the two need not nest.    *)
(***************************************************************************)
NextOverlap ==
    \/ \E t \in Threads, strat \in SessionMasks, logging \in BOOLEAN :
          scopes[t] = <<>> /\ ApplyStrategyEnter(t, TRUE, strat, logging)
    \/ \E t \in Threads : ApplyStrategyExit(t)

SpecOverlap == Init /\ [][NextOverlap]_vars

(***************************************************************************)
(* Vocabulary of the properties.  They read the globals themselves, not    *)
(* the operators of the model.                                             *)
(***************************************************************************)
\* the mask in force: the override if there is one, else TEX | WEBPDF
ActiveMask == IF _strategy = <<>> THEN TEX + WEBPDF ELSE _strategy[1]

Enabled(mask, b) == (mask \div b) % 2 = 1

\* the enabled exporters of a mask, in priority order
EnabledSeq(mask) == SelectSeq(<<TEX, WEBPDF, QTPDF>>, LAMBDA b : Enabled(mask, b))

Pos(b) == CASE b = TEX -> 1 [] b = WEBPDF -> 2 [] OTHER -> 3
PosOfName(n) == CASE n = "TEX" -> 1 [] n = "WEBPDF" -> 2 [] OTHER -> 3

\* the attempt log the caller of the last operation sees
LogOf(t, avail) ==
    IF avail
    THEN (IF session_state[t] = <<>> THEN <<>> ELSE session_state[t][1])
    ELSE _last_pdf_attempts

IsPdf == call.op = "pdf"
\* the last operation was a PDF render that ran the body of the function
Computed == IsPdf /\ ~call.hit /\ ~call.raised

\* the entries the last PDF render appended
Appended ==
    LET log == LogOf(call.t, call.avail)
    IN  SubSeq(log, call.before + 1, Len(log))

\* the exporters the last PDF render ran, in the order it ran them
Invoked == [i \in 1 .. Len(call.attempts) |-> call.attempts[i].b]

Gave(a) == a.out \in {"pdf", "empty"}
Failed(a) == a.out \in {"raise", "none"}

(***************************************************************************)
(* C1  First-success short-circuit: in a call of render_notebook_to_pdf,   *)
(* once an exporter returns a value, that value is the return value of the *)
(* call, no exporter later in the order TEX, WEBPDF, QTPDF is run and no   *)
(* attempt-log entry is written for a later exporter.                      *)
(***************************************************************************)
C1_FirstSuccessWins ==
    Computed =>
        \A i \in 1 .. Len(call.attempts) :
            Gave(call.attempts[i]) =>
                /\ i = Len(call.attempts)
                /\ call.result = <<Name(call.attempts[i].b), call.attempts[i].out>>
                /\ \A k \in 1 .. Len(Appended) :
                      PosOfName(Appended[k].strategy) <= Pos(call.attempts[i].b)

\* TEX succeeded with WEBPDF and QTPDF enabled and telemetry on
C1_Witness ==
    /\ Computed
    /\ ActiveMask = TEX + WEBPDF + QTPDF
    /\ _logging_enabled
    /\ Len(call.attempts) = 1
    /\ call.attempts[1].b = TEX
    /\ call.attempts[1].out = "pdf"
    /\ call.result = <<"TEX", "pdf">>
    /\ Len(Appended) = 2

(***************************************************************************)
(* C2  For every mask in force, the exporters one call runs are enabled in *)
(* the mask and are run in the order TEX, WEBPDF, QTPDF; when every        *)
(* enabled exporter fails, the exporters run are exactly the enabled ones  *)
(* in that order; an exporter that is not enabled is never run and gets no *)
(* attempt-log entry.                                                      *)
(***************************************************************************)
C2_MaskGatesAttempts ==
    IsPdf =>
        /\ \A i \in 1 .. Len(Invoked) : Enabled(ActiveMask, Invoked[i])
        /\ \A i, j \in 1 .. Len(Invoked) : i < j => Pos(Invoked[i]) < Pos(Invoked[j])
        /\ (Computed /\ \A i \in 1 .. Len(call.attempts) : Failed(call.attempts[i]))
              => Invoked = EnabledSeq(ActiveMask)
        /\ \A k \in 1 .. Len(Appended) :
              \E b \in {TEX, WEBPDF, QTPDF} :
                 Name(b) = Appended[k].strategy /\ Enabled(ActiveMask, b)

\* only WEBPDF is enabled: TEX is not run and not logged, WEBPDF succeeds
C2_Witness ==
    /\ Computed
    /\ _strategy = <<WEBPDF>>
    /\ _logging_enabled
    /\ Invoked = <<WEBPDF>>
    /\ call.result = <<"WEBPDF", "pdf">>
    /\ Len(Appended) = 2
    /\ \A k \in 1 .. Len(Appended) : Appended[k].strategy = "WEBPDF"

(***************************************************************************)
(* C3  While the override is Strategy.NONE, a call of                      *)
(* render_notebook_to_pdf runs no exporter, appends no attempt-log entry   *)
(* and returns None.                                                       *)
(***************************************************************************)
C3_NoneMaskGivesNothing ==
    (IsPdf /\ ~call.raised /\ _strategy = <<NONE>>) =>
        /\ call.attempts = <<>>
        /\ Appended = <<>>
        /\ call.result = <<>>

FailNames(log) ==
    LET fails == SelectSeq(log, LAMBDA e : e.status = "fail")
    IN  [i \in 1 .. Len(fails) |-> fails[i].strategy]

(***************************************************************************)
(* C4  With TEX, WEBPDF and QTPDF enabled and telemetry on, a render in    *)
(* which no exporter gives a value (each raises or returns None) runs all  *)
(* three, returns None, and appends exactly three entries of status fail:  *)
(* one for TEX, one for WEBPDF, one for QTPDF, in that order.              *)
(***************************************************************************)
C4_AllFailThreeEntries ==
    (/\ Computed
     /\ ActiveMask = TEX + WEBPDF + QTPDF
     /\ _logging_enabled
     /\ \A i \in 1 .. Len(call.attempts) : Failed(call.attempts[i]))
    =>  /\ Invoked = <<TEX, WEBPDF, QTPDF>>
        /\ call.result = <<>>
        /\ FailNames(Appended) = <<"TEX", "WEBPDF", "QTPDF">>

\* all three exporters raised
C4_Witness ==
    /\ Computed
    /\ _strategy = <<TEX + WEBPDF + QTPDF>>
    /\ _logging_enabled
    /\ Len(call.attempts) = 3
    /\ \A i \in 1 .. 3 : call.attempts[i].out = "raise"
    /\ call.result = <<>>
    /\ FailNames(Appended) = <<"TEX", "WEBPDF", "QTPDF">>

\* the enabled exporters after b, in priority order
EnabledAfter(mask, b) ==
    SelectSeq(<<TEX, WEBPDF, QTPDF>>, LAMBDA x : Enabled(mask, x) /\ Pos(x) > Pos(b))

(***************************************************************************)
(* C5  No exporter's exception leaves render_notebook_to_pdf: a call       *)
(* raises only when the file is missing (no exporter was run); after an    *)
(* exporter raised, the next enabled exporter is run, and if there is none *)
(* the call returns None; the call returns None or a value an exporter it  *)
(* ran has returned.  Telemetry on or off.                                 *)
(***************************************************************************)
C5_FailuresDoNotPropagate ==
    IsPdf =>
        /\ call.raised => (~files[call.path].exists /\ call.attempts = <<>>)
        /\ Computed =>
              /\ \A i \in 1 .. Len(call.attempts) :
                    call.attempts[i].out = "raise" =>
                        LET rest == EnabledAfter(ActiveMask, call.attempts[i].b)
                        IN  IF rest = <<>>
                            THEN i = Len(call.attempts) /\ call.result = <<>>
                            ELSE /\ i < Len(call.attempts)
                                 /\ call.attempts[i + 1].b = rest[1]
              /\ \/ call.result = <<>>
                 \/ \E i \in 1 .. Len(call.attempts) :
                       /\ Gave(call.attempts[i])
                       /\ call.result = <<Name(call.attempts[i].b), call.attempts[i].out>>

\* TEX and WEBPDF raised, QTPDF gave the PDF
C5_Witness ==
    /\ Computed
    /\ Len(call.attempts) = 3
    /\ call.attempts[1].b = TEX /\ call.attempts[1].out = "raise"
    /\ call.attempts[2].b = WEBPDF /\ call.attempts[2].out = "raise"
    /\ call.result = <<"QTPDF", "pdf">>

(***************************************************************************)
(* C6  When an apply_strategy(mask, logging) scope has been left, normally *)
(* or because its body raised, _strategy and _logging_enabled are what     *)
(* they were just before the scope was entered, for every mask, logging    *)
(* value and prior state (one thread, scopes properly nested).             *)
(***************************************************************************)
C6_ScopeRestoresPrior ==
    call.op = "exit" =>
        /\ _strategy = call.frame.pre.strategy
        /\ _logging_enabled = call.frame.pre.logging

\* a logging scope entered inside another override is left by an exception
C6_Witness ==
    /\ call.op = "exit"
    /\ call.raised
    /\ call.frame.logging
    /\ call.frame.pre.strategy = <<WEBPDF>>
    /\ call.frame.pre.logging = FALSE
    /\ call.frame.strat = QTPDF
    /\ _strategy = <<WEBPDF>>
    /\ _logging_enabled = FALSE

(***************************************************************************)
(* C7  Nested scopes are a stack: leaving an inner scope puts back the     *)
(* mask and the telemetry flag the enclosing scope had set up (not the     *)
(* global default), and leaving the outermost scope puts back the state    *)
(* before any override (no override, telemetry off).                       *)
(***************************************************************************)
C7_NestedScopesAreAStack ==
    call.op = "exit" =>
        LET open == scopes[call.t]
        IN  IF open # <<>>
            THEN LET enc == open[Len(open)]
                 IN  /\ _strategy = <<enc.strat>>
                     /\ _logging_enabled = (enc.logging \/ enc.pre.logging)
            ELSE /\ _strategy = <<>>
                 /\ _logging_enabled = FALSE

\* an inner scope is left inside apply_strategy(QTPDF, logging=True)
C7_Witness ==
    /\ call.op = "exit"
    /\ Len(scopes[call.t]) = 1
    /\ scopes[call.t][1].strat = QTPDF
    /\ scopes[call.t][1].logging
    /\ call.frame.strat = TEX
    /\ _strategy = <<QTPDF>>
    /\ _logging_enabled

ClearsPdfCache(c) == c.op = "clear_cache" \/ (c.op = "pdf" /\ c.cold)

C8_Step ==
    /\ (~ClearsPdfCache(call')) => pdf_cache \subseteq pdf_cache'
    /\ (call'.op = "pdf" /\ ~call'.raised) =>
          \E e \in pdf_cache' :
             /\ e.key = <<call'.path, call'.mtime, call'.sck>>
             /\ e.val = call'.result
    /\ (call'.op = "pdf" /\ ~call'.cold) =>
          \A e \in pdf_cache :
             e.key = <<call'.path, call'.mtime, call'.sck>> =>
                /\ call'.hit
                /\ call'.result = e.val
                /\ call'.attempts = <<>>
                /\ _last_pdf_attempts' = _last_pdf_attempts
                /\ session_state' = session_state

(***************************************************************************)
(* C8  The memoized PDF render is idempotent.  After a call that returns,  *)
(* the cache holds the returned value (None included) under the call's     *)
(* (path, mtime, strategy_cache_key); the entry stays until the cache is   *)
(* cleared; a call whose key is held runs no exporter, appends nothing to  *)
(* the attempt stores and returns the held value.  So of two calls with    *)
(* identical arguments and no clear in between, only the first runs        *)
(* exporters, and the second returns the same value.                       *)
(***************************************************************************)
C8_MemoizedRenderIdempotent == [][C8_Step]_vars

\* a second call answered from the cache with a stored None, telemetry on
C8_Witness ==
    /\ IsPdf
    /\ call.hit
    /\ call.result = <<>>
    /\ call.entry # <<>>
    /\ call.entry[1].val = <<>>
    /\ call.entry[1].key = <<call.path, call.mtime, call.sck>>
    /\ _logging_enabled
    /\ ActiveMask # NONE
    /\ Appended = <<>>

(***************************************************************************)
(* C9  No stale reuse across masks: a value computed while the mask in     *)
(* force was X is not returned to a call made while the mask in force is   *)
(* another one, the calls passing (path, mtime) as the page does.          *)
(***************************************************************************)
C9_NoStaleReuseAcrossMasks ==
    (IsPdf /\ call.hit /\ call.sck = TEX + WEBPDF) =>
        call.entry[1].eff = ActiveMask

(***************************************************************************)
(* C10  A fingerprint change invalidates cached renders: a call of         *)
(* render_notebook_to_html or render_notebook_to_pdf is never answered     *)
(* with an entry that was computed for another modification time.          *)
(***************************************************************************)
C10_FingerprintInvalidates ==
    (call.op \in {"pdf", "html"} /\ call.hit) =>
        call.entry[1].mtime = call.mtime

(***************************************************************************)
(* C11  Session isolation: while session A is inside                       *)
(* apply_strategy(X, logging=True), a render_notebook_to_pdf call of       *)
(* session B, which has entered no override, runs exporters of the default *)
(* mask TEX | WEBPDF only (both of them when each fails) and appends       *)
(* nothing to B's attempt log.                                             *)
(***************************************************************************)
C11_SessionIsolation ==
    (/\ Computed
     /\ call.t = "B"
     /\ scopes["B"] = <<>>
     /\ scopes["A"] # <<>>
     /\ scopes["A"][Len(scopes["A"])].logging)
    =>  /\ \A i \in 1 .. Len(Invoked) : Enabled(TEX + WEBPDF, Invoked[i])
        /\ (\A i \in 1 .. Len(call.attempts) : Failed(call.attempts[i]))
              => Invoked = EnabledSeq(TEX + WEBPDF)
        /\ Appended = <<>>

\* the entries of status fail a log holds for the exporter named n
FailsOf(log, n) == SelectSeq(log, LAMBDA e : e.status = "fail" /\ e.strategy = n)

\* the lines of a LaTeX output that report a missing file, in order
MissingLines(output) == SelectSeq(output, LAMBDA l : l.missing # <<>>)

(***************************************************************************)
(* C12  Diagnostic note: with TEX, WEBPDF and QTPDF enabled and telemetry  *)
(* on, when TEX raises, the render appends exactly one fail entry for TEX  *)
(* and runs WEBPDF next.  If the exception is LatexFailed and its output   *)
(* reports a missing file, the entry's note is "install <file>" for the    *)
(* first file reported; if nothing matches (another exception, or no such  *)
(* line) the note is None.                                                 *)
(***************************************************************************)
C12_DiagnosticNote ==
    (/\ Computed
     /\ ActiveMask = TEX + WEBPDF + QTPDF
     /\ _logging_enabled
     /\ call.attempts # <<>>
     /\ call.attempts[1].b = TEX
     /\ call.attempts[1].out = "raise")
    =>  LET e == call.attempts[1].did
            fails == FailsOf(Appended, "TEX")
            named == IF e.type = "LatexFailed" THEN MissingLines(e.output) ELSE <<>>
        IN  /\ Len(fails) = 1
            /\ Len(call.attempts) >= 2
            /\ call.attempts[2].b = WEBPDF
            /\ fails[1].note = IF named # <<>>
                               THEN <<"install " \o named[1].missing[1]>>
                               ELSE <<>>

\* LaTeX did not find a.sty: the note says to install it, WEBPDF gave the PDF
C12_Witness ==
    /\ Computed
    /\ _strategy = <<TEX + WEBPDF + QTPDF>>
    /\ _logging_enabled
    /\ Len(call.attempts) = 2
    /\ call.attempts[1].did.type = "LatexFailed"
    /\ call.attempts[1].did.output = <<[missing |-> <<>>], [missing |-> <<"a.sty">>],
                                       [missing |-> <<>>]>>
    /\ FailsOf(Appended, "TEX") =
          <<[strategy |-> "TEX", status |-> "fail", note |-> <<"install a.sty">>]>>
    /\ call.attempts[2].b = WEBPDF
    /\ call.result = <<"WEBPDF", "pdf">>

\* the cache entries that answer a call with these arguments
HeldPdf(cache, c) ==
    {e \in cache : e.key = <<c.path, c.mtime, c.sck>>}
HeldHtml(cache, c) ==
    {e \in cache : e.key = <<c.path, c.theme>>}

(***************************************************************************)
(* C13 as stated: a call of render_notebook_to_pdf or                      *)
(* render_notebook_to_html with a path at which there is no file raises,   *)
(* runs no exporter and appends nothing to the attempt log.                *)
(***************************************************************************)
C13_MissingSourceRaises ==
    (call.op \in {"pdf", "html"} /\ ~files[call.path].exists) =>
        /\ call.raised
        /\ call.op = "pdf" => (call.attempts = <<>> /\ Appended = <<>>)

C13_Step ==
    /\ (call'.op = "pdf" /\ HeldPdf(pdf_cache, call') = {}) =>
          IF files[call'.path].exists
          THEN /\ ~call'.raised /\ ~call'.hit
               /\ \E e \in pdf_cache' \ pdf_cache : e.val = call'.result
          ELSE /\ call'.raised
               /\ call'.attempts = <<>>
               /\ _last_pdf_attempts' = _last_pdf_attempts
               /\ session_state' = session_state
               /\ pdf_cache' = pdf_cache
    /\ (call'.op = "html" /\ HeldHtml(html_cache, call') = {}) =>
          IF files[call'.path].exists
          THEN /\ ~call'.raised /\ ~call'.hit
               /\ \E e \in html_cache' \ html_cache : e.val = call'.result
          ELSE /\ call'.raised
               /\ html_cache' = html_cache
               /\ _last_pdf_attempts' = _last_pdf_attempts
               /\ session_state' = session_state

(***************************************************************************)
(* C13 amended: a call with a path at which there is no file, which the    *)
(* cache does not answer, raises before any exporter is run, appends       *)
(* nothing to the attempt stores and leaves the cache as it was; and a     *)
(* call the cache does not answer, made when the file exists, computes a   *)
(* result and stores it.  So a call that raised for the missing file is    *)
(* computed afresh once the file is there.                                 *)
(***************************************************************************)
C13_MissingSourceFailsFast == [][C13_Step]_vars

\* the notebook was removed: a logged render of it raises and leaves nothing
C13_Witness ==
    /\ IsPdf
    /\ call.path = "nb.ipynb"
    /\ ~files["nb.ipynb"].exists
    /\ call.raised
    /\ raising[call.t]
    /\ _logging_enabled
    /\ ActiveMask # NONE
    /\ call.attempts = <<>>
    /\ Appended = <<>>
    /\ pdf_cache = {}

\* the outcome entries (ok or fail) a log holds for the exporter named n
OutcomesOf(log, n) == SelectSeq(log, LAMBDA e : e.status # "try" /\ e.strategy = n)

(***************************************************************************)
(* C14  An exporter that returns zero-length bytes without raising is      *)
(* treated as a failure: with telemetry on its outcome entry is fail, the  *)
(* next enabled exporter is run, and the empty value is not what           *)
(* render_notebook_to_pdf returns.                                         *)
(***************************************************************************)
C14_EmptyResultIsFailure ==
    Computed =>
        \A i \in 1 .. Len(call.attempts) :
            call.attempts[i].out = "empty" =>
                LET b == call.attempts[i].b
                    rest == EnabledAfter(ActiveMask, b)
                IN  /\ _logging_enabled =>
                          \A k \in 1 .. Len(OutcomesOf(Appended, Name(b))) :
                              OutcomesOf(Appended, Name(b))[k].status = "fail"
                    /\ rest # <<>> =>
                          /\ i < Len(call.attempts)
                          /\ call.attempts[i + 1].b = rest[1]
                    /\ call.result # <<Name(b), "empty">>

(***************************************************************************)
(* C15  Sequential telemetry: with telemetry on, the entries one render    *)
(* appends are one pair per exporter it ran, in the order it ran them (the *)
(* order TEX, WEBPDF, QTPDF): a try entry and right after it one ok or     *)
(* fail entry for the same exporter; only the last pair may be ok.         *)
(***************************************************************************)
C15_SequentialTelemetry ==
    (Computed /\ _logging_enabled) =>
        /\ Len(Appended) = 2 * Len(call.attempts)
        /\ \A i, j \in 1 .. Len(Invoked) : i < j => Pos(Invoked[i]) < Pos(Invoked[j])
        /\ \A i \in 1 .. Len(call.attempts) :
              LET n == Name(call.attempts[i].b)
                  start == Appended[2 * i - 1]
                  outcome == Appended[2 * i]
              IN  /\ start.strategy = n
                  /\ start.status = "try"
                  /\ outcome.strategy = n
                  /\ outcome.status \in {"ok", "fail"}
                  /\ outcome.status = "ok" => i = Len(call.attempts)

\* TEX and WEBPDF failed, QTPDF gave the PDF: three pairs, the last one ok
C15_Witness ==
    /\ Computed
    /\ _logging_enabled
    /\ Invoked = <<TEX, WEBPDF, QTPDF>>
    /\ Len(Appended) = 6
    /\ [i \in 1 .. 6 |-> Appended[i].status] =
          <<"try", "fail", "try", "fail", "try", "ok">>
    /\ [i \in 1 .. 6 |-> Appended[i].strategy] =
          <<"TEX", "TEX", "WEBPDF", "WEBPDF", "QTPDF", "QTPDF">>
    /\ call.result = <<"QTPDF", "pdf">>

C16_Step ==
    (call'.op = "pdf" /\ ~_logging_enabled) =>
        IF call'.cold
        THEN \* the page's clear_pdf_debug() before the call, then nothing
             /\ _last_pdf_attempts' = <<>>
             /\ session_state' = [session_state EXCEPT ![call'.t] = <<<<>>>>]
        ELSE /\ _last_pdf_attempts' = _last_pdf_attempts
             /\ session_state' = session_state

(***************************************************************************)
(* C16  Telemetry gating: a call of render_notebook_to_pdf made while      *)
(* _logging_enabled is false leaves the session store and the process-wide *)
(* store as they were (as the page's clear_pdf_debug() left them, for its  *)
(* cold render), whatever exporters are enabled and whether they return a  *)
(* value, return None or raise (TEX and WEBPDF have handlers bound with    *)
(* bind_fail).                                                             *)
(***************************************************************************)
C16_TelemetryGating == [][C16_Step]_vars

\* telemetry off, all three exporters enabled and raising: nothing is logged
C16_Witness ==
    /\ Computed
    /\ ~call.cold
    /\ ~_logging_enabled
    /\ _strategy = <<TEX + WEBPDF + QTPDF>>
    /\ Len(call.attempts) = 3
    /\ \A i \in 1 .. 3 : call.attempts[i].out = "raise"
    /\ session_state[call.t] = <<>>
    /\ _last_pdf_attempts = <<>>

C17_Step ==
    call'.op = "enter" =>
        /\ _strategy' = <<call'.strat>>
        /\ IF call'.logging
           THEN /\ _logging_enabled'
                /\ _last_pdf_attempts' = <<>>
                /\ session_state' =
                      IF call'.avail
                      THEN [session_state EXCEPT ![call'.t] = <<<<>>>>]
                      ELSE session_state
           ELSE /\ _logging_enabled' = _logging_enabled
                /\ _last_pdf_attempts' = _last_pdf_attempts
                /\ session_state' = session_state

(***************************************************************************)
(* C17  Entering apply_strategy(mask, logging=True) sets _strategy to the  *)
(* mask, sets _logging_enabled and empties the caller's session store and  *)
(* the process-wide store, so get_pdf_debug() gives the empty list right   *)
(* after; entering with logging=False sets _strategy only and leaves the   *)
(* flag and both stores as they were.                                      *)
(***************************************************************************)
C17_EnterSetsMaskAndClears == [][C17_Step]_vars

\* a logging scope has just been entered after an earlier render, whose
\* value is still in the cache: telemetry is on and both stores are empty
C17_Witness ==
    /\ call.op = "enter"
    /\ call.logging
    /\ call.strat = QTPDF
    /\ _strategy = <<QTPDF>>
    /\ _logging_enabled
    /\ session_state[call.t] = <<<<>>>>
    /\ _last_pdf_attempts = <<>>
    /\ pdf_cache # {}

(***************************************************************************)
(* C18  With no override (_strategy is None) the mask in force is          *)
(* TEX | WEBPDF: a render that runs the function body runs TEX first, runs *)
(* WEBPDF exactly when TEX failed (raised or returned None), never runs    *)
(* QTPDF, and returns None when both failed.                               *)
(***************************************************************************)
C18_DefaultMask ==
    (IsPdf /\ _strategy = <<>>) =>
        /\ \A i \in 1 .. Len(Invoked) : Invoked[i] # QTPDF
        /\ Computed =>
              /\ Len(call.attempts) >= 1
              /\ Invoked[1] = TEX
              /\ IF Failed(call.attempts[1])
                 THEN /\ Invoked = <<TEX, WEBPDF>>
                      /\ Failed(call.attempts[2]) => call.result = <<>>
                 ELSE Invoked = <<TEX>>

\* no override: TEX raised, WEBPDF returned None, QTPDF was not run
C18_Witness ==
    /\ Computed
    /\ _strategy = <<>>
    /\ Invoked = <<TEX, WEBPDF>>
    /\ call.attempts[1].out = "raise"
    /\ call.attempts[2].out = "none"
    /\ call.result = <<>>

IsPrefix(s, r) == Len(s) <= Len(r) /\ SubSeq(r, 1, Len(s)) = s

\* the list of a session, empty while the key is absent
ListOf(sess, t) == IF sess[t] = <<>> THEN <<>> ELSE sess[t][1]

\* the operations that clear an attempt store
ClearsLog(c) ==
    \/ c.op = "clear"
    \/ c.op = "enter" /\ c.logging
    \/ c.op = "pdf" /\ c.cold

C19_Step ==
    /\ ~ClearsLog(call') =>
          /\ IsPrefix(_last_pdf_attempts, _last_pdf_attempts')
          /\ \A t \in Threads :
                IsPrefix(ListOf(session_state, t), ListOf(session_state', t))
    /\ call'.op = "snapshot" =>
          /\ call'.held.val = LogOf(call'.t, call'.avail)
          /\ _last_pdf_attempts' = _last_pdf_attempts
          /\ \A t \in Threads : ListOf(session_state', t) = ListOf(session_state, t)
    /\ call'.op = "mutate" =>
          /\ call'.held.val = Mutated(call.held.val, call'.m)
          /\ _last_pdf_attempts' = _last_pdf_attempts
          /\ session_state' = session_state

(***************************************************************************)
(* C19  The attempt log is append-only between clears and snapshots are    *)
(* copies: an operation that is not a clear leaves each store extended     *)
(* (the old list is a prefix of the new one); get_pdf_debug() returns the  *)
(* store's list as it is; and a caller mutating the list it was given (or  *)
(* an entry of it) changes neither store.  So each snapshot of a store     *)
(* extends the one before it, whatever was done to that one.               *)
(***************************************************************************)
C19_AppendOnlyAndCopies == [][C19_Step]_vars

\* the caller changed an entry of its snapshot: the session store, two
\* entries long, still holds what was recorded
C19_Witness ==
    /\ call.op = "mutate"
    /\ call.m = "edit"
    /\ call.avail
    /\ Len(LogOf(call.t, TRUE)) = 2
    /\ call.held.val[1].status = "edited"
    /\ LogOf(call.t, TRUE)[1].status = "try"
    /\ LogOf(call.t, TRUE)[2].status = "fail"

\* C20 as stated: after clear_pdf_debug() the next get_pdf_debug() returns
\* the empty list, whether or not a session store can be reached at either
C20_ClearThenEmpty ==
    [][(call.op = "clear" /\ call'.op = "snapshot") => call'.held.val = <<>>]_vars

C20_Step ==
    /\ call'.op = "record" =>
          IF call'.avail
          THEN /\ ListOf(session_state', call'.t) =
                     Append(ListOf(session_state, call'.t), call'.entry)
               /\ _last_pdf_attempts' = _last_pdf_attempts
          ELSE /\ _last_pdf_attempts' = Append(_last_pdf_attempts, call'.entry)
               /\ session_state' = session_state
    /\ call'.op = "snapshot" =>
          call'.held.val = IF call'.avail THEN ListOf(session_state, call'.t)
                           ELSE _last_pdf_attempts
    /\ call'.op = "clear" =>
          /\ _last_pdf_attempts' = <<>>
          /\ call'.avail => ListOf(session_state', call'.t) = <<>>
    /\ (call.op = "clear" /\ call'.op = "snapshot"
          /\ (call.avail \/ ~call'.avail)) =>
          call'.held.val = <<>>

(***************************************************************************)
(* C20 amended: without a session store _debug_attempt appends to the      *)
(* process-wide list and get_pdf_debug() returns that list; with one,      *)
(* entries go to and are read from the session's list only;                *)
(* clear_pdf_debug() empties the process-wide list and, when it can be     *)
(* reached, the session's list.  So the get_pdf_debug() that follows a     *)
(* clear returns the empty list when the clear ran with the session store  *)
(* or the snapshot is taken without it, also when the entries were         *)
(* recorded under the other availability.                                  *)
(***************************************************************************)
C20_RecorderWithOrWithoutSession == [][C20_Step]_vars

\* entries were recorded with and without a session: a snapshot taken
\* without one is the process-wide list, in order, not the session's list
C20_Witness ==
    /\ call.op = "snapshot"
    /\ ~call.avail
    /\ call.held.val = <<[strategy |-> "TEX", status |-> "try", note |-> <<>>],
                         [strategy |-> "TEX", status |-> "fail",
                          note |-> <<"install a.sty">>]>>
    /\ _last_pdf_attempts = call.held.val
    /\ ListOf(session_state, call.t) =
          <<[strategy |-> "TEX", status |-> "fail", note |-> <<"install a.sty">>]>>

(***************************************************************************)
(* C21  Overlapping overrides of two sessions do not corrupt the shared    *)
(* configuration: whenever no apply_strategy scope is open, whatever the   *)
(* order in which the two sessions entered and left theirs, _strategy and  *)
(* _logging_enabled are what they were before any scope was entered (no    *)
(* override, telemetry off).                                               *)
(***************************************************************************)
C21_OverlappingScopesRestore ==
    (\A t \in Threads : scopes[t] = <<>>) =>
        /\ _strategy = <<>>
        /\ _logging_enabled = FALSE

C22_Step ==
    /\ call'.op \in {"pdf", "html"} =>
          /\ _strategy' = _strategy
          /\ _logging_enabled' = _logging_enabled
    /\ (_strategy' # _strategy \/ _logging_enabled' # _logging_enabled) =>
          call'.op \in {"enter", "exit"}

(***************************************************************************)
(* C22  The renders never change the override configuration: across every  *)
(* call of render_notebook_to_pdf or render_notebook_to_html (computed,    *)
(* answered by the cache, or raising for a missing file) _strategy and     *)
(* _logging_enabled are the same after as before; they change only when an *)
(* apply_strategy scope is entered or left.                                *)
(***************************************************************************)
C22_RendersKeepConfiguration == [][C22_Step]_vars

\* inside apply_strategy(QTPDF, logging=True) QTPDF raised: the render
\* returned None and the override and the flag are still in force
C22_Witness ==
    /\ Computed
    /\ Len(scopes[call.t]) = 1
    /\ scopes[call.t][1].strat = QTPDF
    /\ scopes[call.t][1].logging
    /\ Len(call.attempts) = 1
    /\ call.attempts[1].b = QTPDF
    /\ call.attempts[1].out = "raise"
    /\ call.result = <<>>
    /\ _strategy = <<QTPDF>>
    /\ _logging_enabled
====
